---- MODULE Spec2Model ----
(***************************************************************************)
(* Multimodal RAG pipeline of 04-multimodal-rag: the query router          *)
(* (query_router.py), the multi-index retriever and its merge              *)
(* (multi_retriever.py), the answer generator (generator.py) and the       *)
(* per-query driver answer_query with the interactive loop (main.py);      *)
(* the interactive loops and the startup checks of the five entry points   *)
(* (01..05 main.py); load_documents (document_loader.py) and               *)
(* get_or_create_vector_store (vector_store.py) of 01-rag-from-scratch;    *)
(* extract_clauses of 02-legal-ai-assistant (clause_extractor.py);         *)
(* index_papers and parse_all_papers of 03-research-agent; and the agent   *)
(* executors of 03 and 05 with the tools of 05-agentic-rag-realtime.       *)
(*                                                                         *)
(* Strings whose characters matter (result contents, input lines, file     *)
(* suffixes) are sequences of one-character strings; the LLM, the three    *)
(* FAISS indexes, the terminal and the file system are external and are    *)
(* modelled by the behaviours they can show to the code.                   *)
(***************************************************************************)
EXTENDS Integers, Sequences, FiniteSets, TLC

VARIABLES
    text_index,      \* main(): the text index, "None" or "FAISS"
    image_index,     \* main(): the image-caption index, "None" or "FAISS"
    table_index,     \* main(): the table-description index, "None" or "FAISS"
    pc,              \* position in main()'s loop / answer_query
    llm_response,    \* classify_query on its own: what the LLM does on the prompt
    query_types,     \* answer_query: query_types
    hits,            \* what each index search did for the current query
    searched,        \* the index searches performed, in call order
    raw_results,     \* answer_query: raw_results
    ranked_results,  \* answer_query: ranked_results
    context,         \* generate_answer: the three context sections
    answer,          \* answer_query: answer
    llm_raised,      \* the classification LLM call of the current query raised
    gen_llm,         \* generate_answer: what the LLM did on the answer prompt
    leftover,        \* what an earlier call of retrieve_all left in its results list
    project,         \* the project whose entry point runs (1..5)
    line,            \* interactive loop: the line input() returned
    env,             \* entry point: the model selected and OPENAI_API_KEY
    steps,           \* entry point: the startup steps performed, in order
    listing,         \* load_documents: what data_path.rglob("*") yields
    all_documents,   \* load_documents: all_documents
    pdf_files,       \* research agent: sorted(papers_path.glob("*.pdf"))
    all_docs,        \* index_papers: all_docs
    paper_results,   \* parse_all_papers: results
    iterations,      \* agent executor: iterations of the current query
    observation,     \* agent executor: what the last tool call returned
    clauses,         \* extract_clauses: what the call returned
    index_file,      \* get_or_create_vector_store: the index saved under path
    vector_store,    \* get_or_create_vector_store: the store returned
    embedded         \* create_vector_store: calls made since path was deleted

vars == <<text_index, image_index, table_index, pc, llm_response, query_types,
          hits, searched, raw_results, ranked_results, context, answer,
          llm_raised, gen_llm, leftover, project, line, env, steps, listing,
          all_documents, pdf_files, all_docs, paper_results, iterations,
          observation, clauses, index_file, vector_store, embedded>>

-----------------------------------------------------------------------------
(* Bounds of the model *)

\* longest "types" list the LLM answers with
MaxTypes == 2
\* most documents one index search returns in the pipeline (at most k)
MaxHits == 1
\* longest list handed directly to merge_and_rank_results
MaxLen == 3
\* longest ranked list handed directly to generate_answer
MaxRanked == 3
\* most blanks typed before and after the words of an input line
MaxPad == 1
\* most entries of the directory given to load_documents
MaxFiles == 3
\* most PDFs in the papers directory of the research agent
MaxPapers == 3
\* most clauses in the JSON array the LLM answers extract_clauses with
MaxClauses == 3
\* most chunks passed to get_or_create_vector_store
MaxChunks == 2

\* answer_query passes k=3 to retrieve_all
K == 3

\* create_agent and create_research_agent pass max_iterations=8
max_iterations == 8

-----------------------------------------------------------------------------
(* Generic helpers *)

Range(s) == {s[i] : i \in 1..Len(s)}

SeqsUpTo(S, n) == UNION {[1..m -> S] : m \in 0..n}

Count(s, x) == Cardinality({i \in 1..Len(s) : s[i] = x})

-----------------------------------------------------------------------------
(* query_router.py *)

\* class QueryType(Enum)
QueryType == {"TEXT", "IMAGE", "TABLE", "ALL"}

\* the list both fail-open paths and the ALL expansion return
AllThree == <<"TEXT", "IMAGE", "TABLE">>

\* an entry of the parsed "types" value that is not a str (a JSON number)
NotAString == "<number>"

\* entries the LLM may put in "types"
Entries == {"TEXT", "image", "Table", "ALL", "all", "bogus", NotAString}

\* str.upper() on the entries above
Upper_mut_identity(t) == t
Upper(t) ==
    CASE t = "image" -> "IMAGE"
      [] t = "Table" -> "TABLE"
      [] t = "all"   -> "ALL"
      [] t = "bogus" -> "BOGUS"
      [] OTHER       -> t

\* Behaviours of the LLM on the classification prompt:
\*   raise   - llm.invoke / llm.predict raises
\*   nojson  - the text holds no {...}
\*   badjson - the matched {...} is not valid JSON
\*   nokey   - a JSON object without the "types" key
\*   scalar  - "types" is a number or null (not iterable)
\*   string  - "types" is a JSON string; iterating it yields its characters
\*   list    - "types" is the list of entries in .types
LLMKinds == {"raise", "nojson", "badjson", "nokey", "scalar", "string", "list"}

LLMResponses ==
    [kind : LLMKinds \ {"list", "string"}, types : {<<>>}]
        \cup [kind : {"string"}, types : {<<"A", "L", "L">>}]
        \cup [kind : {"list"}, types : SeqsUpTo(Entries, MaxTypes)]

NoResponse == [kind |-> "none", types |-> <<>>]

\* Outcome of the for loop over type_strings (lines 95-109):
\* "return" with a value, or "raise" into the except clause.
RECURSIVE classify_loop(_, _)
classify_loop(type_strings, acc) ==
    IF type_strings = <<>>
    THEN IF acc = <<>>
         THEN [how |-> "raise", value |-> <<>>]        \* No valid QueryType values parsed.
         ELSE [how |-> "return", value |-> acc]
    ELSE LET t == Head(type_strings) IN
         IF t = NotAString
         THEN [how |-> "raise", value |-> <<>>]        \* t.upper(): AttributeError
         ELSE IF Upper(t) = "ALL"
         THEN [how |-> "return", value |-> AllThree]
         ELSE IF Upper(t) \in QueryType
         THEN classify_loop(Tail(type_strings), Append(acc, Upper(t)))
         ELSE classify_loop(Tail(type_strings), acc)   \* unknown type string: skip

\* The value the except clause returns (line 114)
fallback_mut_all == <<"ALL">>
fallback == AllThree

\* Body of the try block (lines 81-109)
classify_try_mut_skip(resp) ==
    CASE resp.kind \in {"raise", "nojson", "badjson", "scalar"} ->
            [how |-> "raise", value |-> <<>>]
      [] resp.kind = "nokey" -> classify_loop(<<"ALL">>, <<>>)
      [] OTHER -> classify_loop(SelectSeq(resp.types, LAMBDA t : t # NotAString), <<>>)
classify_try(resp) ==
    CASE resp.kind \in {"raise", "nojson", "badjson", "scalar"} ->
            [how |-> "raise", value |-> <<>>]
      [] resp.kind = "nokey" -> classify_loop(<<"ALL">>, <<>>)
      [] OTHER -> classify_loop(resp.types, <<>>)

classify_query(resp) ==
    LET r == classify_try(resp) IN
    IF r.how = "return" THEN r.value ELSE fallback

-----------------------------------------------------------------------------
(* multi_retriever.py: retrieve_all *)

Modalities == {"text", "image", "table"}

\* the order of the three if-blocks of retrieve_all (lines 79, 91, 106)
order == <<"text", "image", "table">>

\* the QueryType that selects a modality's index
TypeOf(m) == CASE m = "text" -> "TEXT" [] m = "image" -> "IMAGE" [] OTHER -> "TABLE"

\* Result contents, character by character: "a", " a" and "b".
Contents == {<<"a">>, <<" ", "a">>, <<"b">>}

\* L2 distances (lower = more similar)
Scores == {1, 2}

\* The contents indexed per modality: every two indexes share a content
\* (a table also mentioned verbatim in the text, a caption repeating a cell).
Corpus(m) ==
    CASE m = "text"  -> {<<"a">>, <<"b">>}
      [] m = "image" -> {<<"a">>, <<" ", "a">>}
      [] OTHER       -> {<<"b">>, <<" ", "a">>}

\* What one index search does: it raises, or it returns up to MaxHits
\* (content, score) pairs in ascending score order.  "unsearched" marks an
\* index that was not called for the current query.
Ascending(s) == \A i \in 1..Len(s) - 1 : s[i].score <= s[i + 1].score

SearchReturns(m) ==
    {s \in SeqsUpTo([content : Corpus(m), score : Scores], MaxHits) : Ascending(s)}

Unsearched == [kind |-> "unsearched", docs |-> <<>>]
Raises == [kind |-> "raise", docs |-> <<>>]
SearchOutcomes(m) == {Raises} \cup [kind : {"ok"}, docs : SearchReturns(m)]

NoHits == [m \in Modalities |-> Unsearched]

\* The result dict appended for the i-th document of modality m's search
\* (lines 81-89, 93-104, 108-120).  A document's metadata names the document
\* it came from: the index and the position in that index's answer.
result_dict_mut_normalized(m, docs, i) ==
    LET d_min == CHOOSE d \in {docs[j].score : j \in 1..Len(docs)} :
                     \A j \in 1..Len(docs) : d <= docs[j].score
        d_max == CHOOSE d \in {docs[j].score : j \in 1..Len(docs)} :
                     \A j \in 1..Len(docs) : d >= docs[j].score
    IN  [content  |-> docs[i].content,
         modality |-> m,
         metadata |-> <<m, i>>,
         source   |-> <<m, i>>,
         score    |-> IF d_max = d_min
                      THEN 1
                      ELSE 1 - ((docs[i].score - d_min) \div (d_max - d_min))]
result_dict(m, docs, i) ==
    [content  |-> docs[i].content,
     modality |-> m,
     metadata |-> <<m, i>>,
     source   |-> <<m, i>>,
     score    |-> docs[i].score]

result_dicts(m, docs) == [i \in 1..Len(docs) |-> result_dict(m, docs, i)]

\* the condition of each if-block: the type is selected and the index exists
selected_mut_ignore_types(m, qts, index) == index # "None"
selected_mut_no_none_check(m, qts, index) == TypeOf(m) \in Range(qts)
selected(m, qts, index) == TypeOf(m) \in Range(qts) /\ index # "None"

\* One if-block of retrieve_all applied to the state of the call:
\* st.results, st.searched, st.raised (an exception is propagating).
search_block(st, m, qts, index, outcome) ==
    IF st.raised \/ ~selected(m, qts, index)
    THEN st
    ELSE IF index = "None" \/ outcome.kind # "ok"
    THEN [st EXCEPT !.searched = Append(@, m), !.raised = TRUE]
    ELSE [st EXCEPT !.searched = Append(@, m),
                    !.results = @ \o result_dicts(m, outcome.docs)]

\* results: list[dict] = [] (line 77): every call starts from a new list,
\* whatever an earlier call left in its own
initial_results_mut_leftover == leftover
initial_results == <<>>

\* retrieve_all (lines 77-122); h[m] is what index m does when searched
retrieve_all(qts, ti, ii, bi, h) ==
    LET s0 == [results |-> initial_results, searched |-> <<>>, raised |-> FALSE]
        s1 == search_block(s0, "text", qts, ti, h["text"])
        s2 == search_block(s1, "image", qts, ii, h["image"])
        s3 == search_block(s2, "table", qts, bi, h["table"])
    IN  s3

-----------------------------------------------------------------------------
(* multi_retriever.py: merge_and_rank_results *)

\* the loop of lines 145-148: seen_content and unique
RECURSIVE dedup_loop(_, _, _)
dedup_loop(rest, seen_content, unique) ==
    IF rest = <<>>
    THEN unique
    ELSE LET r == Head(rest) IN
         IF r.content \notin seen_content
         THEN dedup_loop(Tail(rest), seen_content \cup {r.content}, Append(unique, r))
         ELSE dedup_loop(Tail(rest), seen_content, unique)

\* De-duplicate on content string (lines 143-148)
deduplicate_mut_none(results) == results
deduplicate_mut_last(results) ==
    SelectSeq([i \in 1..Len(results) |->
                  IF \E j \in (i + 1)..Len(results) : results[j].content = results[i].content
                  THEN [results[i] EXCEPT !.modality = "dropped"]
                  ELSE results[i]],
              LAMBDA r : r.modality # "dropped")
deduplicate(results) == dedup_loop(results, {}, <<>>)

\* the bucket an item goes to (line 153)
bucket_key_mut_no_default(r) == r.modality
bucket_key(r) == IF r.modality \in Modalities THEN r.modality ELSE "text"

\* Separate into modality buckets (lines 151-154)
make_buckets(unique) ==
    [m \in Modalities |-> SelectSeq(unique, LAMBDA r : bucket_key(r) = m)]

\* list.sort(key=score) is stable: x goes behind every item whose score is
\* not larger than its own
RECURSIVE insert_by_score(_, _)
insert_by_score(sorted, x) ==
    IF sorted = <<>> THEN <<x>>
    ELSE IF Head(sorted).score <= x.score
    THEN <<Head(sorted)>> \o insert_by_score(Tail(sorted), x)
    ELSE <<x>> \o sorted

RECURSIVE sort_loop(_, _)
sort_loop(rest, sorted) ==
    IF rest = <<>> THEN sorted
    ELSE sort_loop(Tail(rest), insert_by_score(sorted, Head(rest)))

\* bucket.sort(key=lambda x: x["score"]) (lines 157-158)
sort_bucket_mut_unsorted(bucket) == bucket
sort_bucket_mut_metadata(bucket) ==
    LET keyed  == [i \in 1..Len(bucket) |->
                      [bucket[i] EXCEPT !.score = @ * 10 + bucket[i].metadata[2]]]
        sorted == sort_loop(keyed, <<>>)
    IN  [i \in 1..Len(sorted) |-> [sorted[i] EXCEPT !.score = @ \div 10]]
sort_bucket_mut_reverse(bucket) ==
    [i \in 1..Len(bucket) |-> bucket[Len(bucket) + 1 - i]]
sort_bucket(bucket) == sort_loop(bucket, <<>>)

Max3(a, b, c) == IF a >= b /\ a >= c THEN a ELSE IF b >= c THEN b ELSE c
Min3(a, b, c) == IF a <= b /\ a <= c THEN a ELSE IF b <= c THEN b ELSE c

\* max((len(b) for b in buckets.values()), default=0) (line 163)
max_len_mut_min(buckets) ==
    Min3(Len(buckets["text"]), Len(buckets["image"]), Len(buckets["table"]))
max_len(buckets) ==
    Max3(Len(buckets["text"]), Len(buckets["image"]), Len(buckets["table"]))

\* one round of the interleave: the inner loop over order (lines 165-167)
take_round(buckets, i) ==
    (IF i <= Len(buckets["text"]) THEN <<buckets["text"][i]>> ELSE <<>>)
        \o (IF i <= Len(buckets["image"]) THEN <<buckets["image"][i]>> ELSE <<>>)
        \o (IF i <= Len(buckets["table"]) THEN <<buckets["table"][i]>> ELSE <<>>)

\* the outer loop over range(max_len) (lines 164-167)
RECURSIVE interleave_loop(_, _, _, _)
interleave_loop(buckets, i, n, merged) ==
    IF i > n THEN merged
    ELSE interleave_loop(buckets, i + 1, n, merged \o take_round(buckets, i))

interleave_mut_by_bucket(buckets) ==
    buckets["text"] \o buckets["image"] \o buckets["table"]
interleave(buckets) == interleave_loop(buckets, 1, max_len(buckets), <<>>)

\* merge_and_rank_results (lines 142-169)
merge_and_rank_results(results) ==
    LET unique  == deduplicate(results)
        raw     == make_buckets(unique)
        buckets == [m \in Modalities |-> sort_bucket(raw[m])]
    IN  interleave(buckets)

-----------------------------------------------------------------------------
(* generator.py *)

\* str.strip() on a content: drop leading and trailing blanks
RECURSIVE lstrip(_)
lstrip(c) == IF c # <<>> /\ Head(c) = " " THEN lstrip(Tail(c)) ELSE c

RECURSIVE rstrip(_)
rstrip(c) ==
    IF c # <<>> /\ c[Len(c)] = " " THEN rstrip(SubSeq(c, 1, Len(c) - 1)) ELSE c

strip(c) == rstrip(lstrip(c))

\* the "No ... context available." sentinel of a section (lines 59-61),
\* word by word
NoContext(m) == <<"No", m, "context", "available.">>

\* the stripped contents of one modality, in result order (lines 43-56):
\* text_chunks, image_captions, table_descriptions
section_items_mut_reversed(results, m) ==
    LET of_m == SelectSeq(results, LAMBDA r : r.modality = m)
    IN  [i \in 1..Len(of_m) |-> strip(of_m[Len(of_m) + 1 - i].content)]
section_items(results, m) ==
    LET of_m == SelectSeq(results, LAMBDA r : r.modality = m)
    IN  [i \in 1..Len(of_m) |-> strip(of_m[i].content)]

\* one context section (lines 59-61): the chunks the "\n\n".join puts
\* together, or the sentinel alone
section_mut_no_sentinel(results, m) == section_items(results, m)
section(results, m) ==
    IF section_items(results, m) # <<>>
    THEN section_items(results, m)
    ELSE <<NoContext(m)>>

\* the prompt's three sections [TEXT], [IMAGE DESCRIPTIONS], [TABLE DATA]
\* (lines 64-80)
build_context(results) == [m \in Modalities |-> section(results, m)]

NoSections == [m \in Modalities |-> <<>>]

\* image_refs (lines 49-54): the image_path kept in an image result's metadata
image_refs(results) ==
    LET images == SelectSeq(results, LAMBDA r : r.modality = "image")
    IN  [i \in 1..Len(images) |-> images[i].metadata]

\* what the LLM does on the answer prompt (lines 83-89)
GenLLM == {"ok", "raise"}

ErrorString == "[generator] LLM call failed"
LLMAnswer == "<llm answer>"
NoAnswer == [text |-> "<none>", refs |-> <<>>]

\* generate_answer (lines 37-98): the context it builds, the string it returns
\* (text and the "See image:" block) and whether an exception leaves it
generate_answer_mut_propagate(results, llm) ==
    [raised  |-> llm = "raise",
     context |-> build_context(results),
     text    |-> LLMAnswer,
     refs    |-> image_refs(results)]
generate_answer(results, llm) ==
    [raised  |-> FALSE,
     context |-> build_context(results),
     text    |-> IF llm = "raise" THEN ErrorString ELSE LLMAnswer,
     refs    |-> image_refs(results)]

-----------------------------------------------------------------------------
(* main.py: the interactive loop and answer_query *)

IndexValues == {"None", "FAISS"}

indexes == <<text_index, image_index, table_index>>

\* the variables of the other entry points, of the interactive loops and of
\* load_documents, which the multimodal pipeline never touches
side == <<project, line, env, steps, listing, all_documents, pdf_files, all_docs,
          paper_results, iterations, observation, clauses, index_file, vector_store, embedded>>

\* the variables of the research agent, the agent executor, the clause
\* extractor and the vector store cache
aux == <<pdf_files, all_docs, paper_results, iterations, observation, clauses,
         index_file, vector_store, embedded>>

NoObservation == [tool |-> "none", kind |-> "none", text |-> "none"]
NoClauses ==
    [raw_content |-> [kind |-> "none", fenced |-> FALSE, types |-> <<>>],
     kind |-> "none", items |-> <<>>]
NoIndexFile == [kind |-> "none", chunks |-> <<>>]
NoStore == [kind |-> "none", chunks |-> <<>>, passed |-> <<>>]

AuxIdle ==
    /\ pdf_files = <<>>
    /\ all_docs = <<>>
    /\ paper_results = <<>>
    /\ iterations = 0
    /\ observation = NoObservation
    /\ clauses = NoClauses
    /\ index_file = NoIndexFile
    /\ vector_store = NoStore
    /\ embedded = 0

NoLine == [kind |-> "none", text |-> <<>>]
NoEnv == [model |-> "none", key |-> "none", file |-> "none"]

Idle ==
    /\ project = 4
    /\ line = NoLine
    /\ env = NoEnv
    /\ steps = <<>>
    /\ listing = <<>>
    /\ all_documents = <<>>
    /\ AuxIdle

\* an item standing for whatever an earlier query retrieved
Stale ==
    [content  |-> <<"s">>,
     modality |-> "text",
     metadata |-> <<"text", 0>>,
     source   |-> <<"text", 0>>,
     score    |-> 1]

\* main() has built (or skipped) each index and waits for a question
Init ==
    /\ text_index \in IndexValues
    /\ image_index \in IndexValues
    /\ table_index \in IndexValues
    /\ pc = "ask"
    /\ llm_response = NoResponse
    /\ query_types = <<>>
    /\ hits = NoHits
    /\ searched = <<>>
    /\ raw_results = <<>>
    /\ ranked_results = <<>>
    /\ context = NoSections
    /\ answer = NoAnswer
    /\ llm_raised = FALSE
    /\ gen_llm = "none"
    /\ leftover = <<>>
    /\ Idle

\* A question is read and answer_query starts:
\* query_types = classify_query(query, llm) (main.py line 97)
Classify ==
    /\ pc = "ask"
    /\ \E resp \in LLMResponses :
          /\ llm_raised' = (resp.kind = "raise")
          /\ query_types' = classify_query(resp)
    /\ pc' = "classified"
    /\ UNCHANGED <<side, indexes, llm_response, hits, searched, raw_results, ranked_results,
                   context, answer, gen_llm, leftover>>

\* what index m can do in the call state st: nothing unless it is called
Offer(st, m, index) ==
    IF st.raised \/ ~selected(m, query_types, index)
    THEN {Unsearched}
    ELSE SearchOutcomes(m)

\* raw_results = retrieve_all(...) (main.py lines 100-107).  An exception of
\* an index search leaves retrieve_all, answer_query and main().
RetrieveAll ==
    /\ pc = "classified"
    /\ LET s0 == [results |-> <<>>, searched |-> <<>>, raised |-> FALSE] IN
       \E ht \in Offer(s0, "text", text_index) :
       LET s1 == search_block(s0, "text", query_types, text_index, ht) IN
       \E hi \in Offer(s1, "image", image_index) :
       LET s2 == search_block(s1, "image", query_types, image_index, hi) IN
       \E hb \in Offer(s2, "table", table_index) :
       LET h == [m \in Modalities |->
                    CASE m = "text" -> ht [] m = "image" -> hi [] OTHER -> hb]
           r == retrieve_all(query_types, text_index, image_index, table_index, h)
       IN  /\ hits' = h
           /\ searched' = r.searched
           /\ raw_results' = IF r.raised THEN <<>> ELSE r.results
           /\ pc' = IF r.raised THEN "crashed" ELSE "retrieved"
    /\ UNCHANGED <<side, indexes, llm_response, query_types, ranked_results, context, answer,
                   llm_raised, gen_llm, leftover>>

\* ranked_results = merge_and_rank_results(raw_results) (main.py line 109)
Merge ==
    /\ pc = "retrieved"
    /\ ranked_results' = merge_and_rank_results(raw_results)
    /\ pc' = "merged"
    /\ UNCHANGED <<side, indexes, llm_response, query_types, hits, searched, raw_results,
                   context, answer, llm_raised, gen_llm, leftover>>

\* answer = generate_answer(query, ranked_results, llm) (main.py line 112)
Generate ==
    /\ pc = "merged"
    /\ \E llm \in GenLLM :
          LET g == generate_answer(ranked_results, llm) IN
          /\ gen_llm' = llm
          /\ context' = g.context
          /\ answer' = IF g.raised THEN NoAnswer ELSE [text |-> g.text, refs |-> g.refs]
          /\ pc' = IF g.raised THEN "crashed" ELSE "answered"
    /\ UNCHANGED <<side, indexes, llm_response, query_types, hits, searched, raw_results,
                   ranked_results, llm_raised, leftover>>

\* answer_query returns, its locals are gone; the answer is printed and the
\* loop asks for the next question (main.py lines 205-207)
NextQuestion ==
    /\ pc = "answered"
    /\ pc' = "ask"
    /\ query_types' = <<>>
    /\ hits' = NoHits
    /\ searched' = <<>>
    /\ raw_results' = <<>>
    /\ ranked_results' = <<>>
    /\ context' = NoSections
    /\ answer' = NoAnswer
    /\ llm_raised' = FALSE
    /\ gen_llm' = "none"
    /\ leftover' = IF raw_results # <<>> THEN <<Stale>> ELSE leftover
    /\ UNCHANGED <<side, indexes, llm_response>>

\* "quit", "exit", "q" or end of input (main.py lines 197-202)
Quit ==
    /\ pc = "ask"
    /\ pc' = "exited"
    /\ UNCHANGED <<side, indexes, llm_response, query_types, hits, searched, raw_results,
                   ranked_results, context, answer, llm_raised, gen_llm, leftover>>

Next == Classify \/ RetrieveAll \/ Merge \/ Generate \/ NextQuestion \/ Quit

Spec == Init /\ [][Next]_vars

-----------------------------------------------------------------------------
(* merge_and_rank_results on its own: any list of result dicts *)

\* modality strings a caller may pass; "other" is in no bucket
AnyModality == Modalities \cup {"other"}

\* the content, modality and score of each item of a directly passed list
InputShapes ==
    SeqsUpTo([content : Contents, modality : AnyModality, score : Scores], MaxLen)

\* result dicts of a directly passed list; item i carries its own metadata
InputList(s) ==
    [i \in 1..Len(s) |->
        [content  |-> s[i].content,
         modality |-> s[i].modality,
         metadata |-> <<"doc", i>>,
         source   |-> <<"doc", i>>,
         score    |-> s[i].score]]

InitMerge ==
    /\ text_index = "None"
    /\ image_index = "None"
    /\ table_index = "None"
    /\ pc = "retrieved"
    /\ llm_response = NoResponse
    /\ query_types = <<>>
    /\ hits = NoHits
    /\ searched = <<>>
    /\ \E s \in InputShapes : raw_results = InputList(s)
    /\ ranked_results = <<>>
    /\ context = NoSections
    /\ answer = NoAnswer
    /\ llm_raised = FALSE
    /\ gen_llm = "none"
    /\ leftover = <<>>
    /\ Idle

NextMerge == Merge

SpecMerge == InitMerge /\ [][NextMerge]_vars

-----------------------------------------------------------------------------
(* retrieve_all on its own, with searches that return up to k documents *)

\* The k = K nearest documents of each index for the query, nearest first;
\* the three indexes hold four distinct contents between them.
Nearest(m) ==
    CASE m = "text" ->
           <<[content |-> <<"a">>, score |-> 1],
             [content |-> <<"b">>, score |-> 1],
             [content |-> <<" ", "a">>, score |-> 2]>>
      [] m = "image" ->
           <<[content |-> <<"c">>, score |-> 1],
             [content |-> <<"a">>, score |-> 1],
             [content |-> <<"b">>, score |-> 2]>>
      [] OTHER ->
           <<[content |-> <<"b">>, score |-> 1],
             [content |-> <<"c">>, score |-> 2],
             [content |-> <<" ", "a">>, score |-> 2]>>

\* similarity_search_with_score(query, k=k): the nearest n documents, n the
\* smaller of k and the size of the index; or the search raises
TopK(m) ==
    {Raises} \cup {[kind |-> "ok", docs |-> SubSeq(Nearest(m), 1, n)] : n \in 0..K}

InitRetrieve ==
    /\ text_index \in IndexValues
    /\ image_index \in IndexValues
    /\ table_index \in IndexValues
    /\ pc = "classified"
    /\ llm_response = NoResponse
    /\ query_types \in {classify_query(resp) : resp \in LLMResponses}
    /\ hits \in [Modalities -> UNION {TopK(m) : m \in Modalities}]
    /\ \A m \in Modalities : hits[m] \in TopK(m)
    /\ searched = <<>>
    /\ raw_results = <<>>
    /\ ranked_results = <<>>
    /\ context = NoSections
    /\ answer = NoAnswer
    /\ llm_raised = FALSE
    /\ gen_llm = "none"
    /\ leftover = <<>>
    /\ Idle

\* retrieve_all(query, query_types, ..., k=3) with indexes that answer a
\* search as hits says
RetrieveGiven ==
    /\ pc = "classified"
    /\ LET r == retrieve_all(query_types, text_index, image_index, table_index, hits)
       IN  /\ searched' = r.searched
           /\ raw_results' = IF r.raised THEN <<>> ELSE r.results
           /\ pc' = IF r.raised THEN "crashed" ELSE "retrieved"
    /\ UNCHANGED <<side, indexes, llm_response, query_types, hits, ranked_results,
                   context, answer, llm_raised, gen_llm, leftover>>

NextRetrieve == RetrieveGiven \/ Merge

SpecRetrieve == InitRetrieve /\ [][NextRetrieve]_vars

-----------------------------------------------------------------------------
(* classify_query on its own: any behaviour of the LLM *)

InitClassify ==
    /\ text_index = "None"
    /\ image_index = "None"
    /\ table_index = "None"
    /\ pc = "ask"
    /\ llm_response \in LLMResponses
    /\ query_types = <<>>
    /\ hits = NoHits
    /\ searched = <<>>
    /\ raw_results = <<>>
    /\ ranked_results = <<>>
    /\ context = NoSections
    /\ answer = NoAnswer
    /\ llm_raised = FALSE
    /\ gen_llm = "none"
    /\ leftover = <<>>
    /\ Idle

\* classify_query(query, llm) with an llm that behaves as llm_response
ClassifyGiven ==
    /\ pc = "ask"
    /\ query_types' = classify_query(llm_response)
    /\ llm_raised' = (llm_response.kind = "raise")
    /\ pc' = "classified"
    /\ UNCHANGED <<side, indexes, llm_response, hits, searched, raw_results, ranked_results,
                   context, answer, gen_llm, leftover>>

NextClassify == ClassifyGiven

SpecClassify == InitClassify /\ [][NextClassify]_vars

-----------------------------------------------------------------------------
(* generate_answer on its own: every list merge_and_rank_results can return *)

\* the content and modality of each item of a list handed to
\* generate_answer, which never reads a score: every item is at distance 1
RankedShapes ==
    SeqsUpTo([content : Contents, modality : AnyModality, score : {1}], MaxRanked)

InitGenerate ==
    /\ text_index = "None"
    /\ image_index = "None"
    /\ table_index = "None"
    /\ pc = "merged"
    /\ llm_response = NoResponse
    /\ query_types = <<>>
    /\ hits = NoHits
    /\ searched = <<>>
    \* the lists merge_and_rank_results returns: those it leaves unchanged
    /\ \E s \in RankedShapes :
          /\ merge_and_rank_results(InputList(s)) = InputList(s)
          /\ raw_results = InputList(s)
    /\ ranked_results = merge_and_rank_results(raw_results)
    /\ context = NoSections
    /\ answer = NoAnswer
    /\ llm_raised = FALSE
    /\ gen_llm = "none"
    /\ leftover = <<>>
    /\ Idle

NextGenerate == Generate

SpecGenerate == InitGenerate /\ [][NextGenerate]_vars

-----------------------------------------------------------------------------
(* The interactive loops of the five entry points *)

\* 1: 01-rag-from-scratch, 2: 02-legal-ai-assistant, 3: 03-research-agent,
\* 4: 04-multimodal-rag, 5: 05-agentic-rag-realtime
Projects == 1..5

\* the pipeline's variables while another part of the repository runs
PipelineIdle ==
    /\ text_index = "None"
    /\ image_index = "None"
    /\ table_index = "None"
    /\ llm_response = NoResponse
    /\ query_types = <<>>
    /\ hits = NoHits
    /\ searched = <<>>
    /\ raw_results = <<>>
    /\ ranked_results = <<>>
    /\ context = NoSections
    /\ answer = NoAnswer
    /\ llm_raised = FALSE
    /\ gen_llm = "none"
    /\ leftover = <<>>

pipeline == <<indexes, llm_response, query_types, hits, searched, raw_results,
              ranked_results, context, answer, llm_raised, gen_llm, leftover>>

\* str.lower(), character by character
lower_char_mut_identity(c) == c
lower_char(c) ==
    CASE c = "Q" -> "q" [] c = "U" -> "u" [] c = "I" -> "i" [] c = "T" -> "t"
      [] c = "E" -> "e" [] c = "X" -> "x" [] c = "H" -> "h" [] c = "P" -> "p"
      [] c = "D" -> "d" [] c = "F" -> "f" [] OTHER -> c

lower(t) == [i \in 1..Len(t) |-> lower_char(t[i])]

\* the words of ("quit", "exit", "q")
QuitWords == {<<"q", "u", "i", "t">>, <<"e", "x", "i", "t">>, <<"q">>}

\* what a user types between the blanks of a line
Typed ==
    {<<>>,
     <<"q", "u", "i", "t">>, <<"Q", "U", "I", "T">>, <<"Q", "u", "i", "t">>,
     <<"e", "x", "i", "t">>, <<"E", "x", "i", "T">>,
     <<"q">>, <<"Q">>,
     <<"h", "i">>, <<"q", "u", "i", "t", " ", "x">>, <<"e", "x", "i", "t", "s">>}

Blanks == {[i \in 1..n |-> " "] : n \in 0..MaxPad}

\* what input() does: it returns a line, or raises EOFError or
\* KeyboardInterrupt
Inputs ==
    {[kind |-> "line", text |-> l \o t \o r] : l \in Blanks, t \in Typed, r \in Blanks}
        \cup {[kind |-> "eof", text |-> <<>>], [kind |-> "interrupt", text |-> <<>>]}

\* One turn of the while loop up to the call that answers the question:
\* "break", "continue" or "run".  04 tests the quit words before the empty
\* line, the other four the empty line first.
loop_body(p, inp) ==
    IF inp.kind # "line"
    THEN "break"
    ELSE LET query == strip(inp.text) IN
         IF p = 4
         THEN IF lower(query) \in QuitWords THEN "break"
              ELSE IF query = <<>> THEN "continue"
              ELSE "run"
         ELSE IF query = <<>> THEN "continue"
              ELSE IF lower(query) \in QuitWords THEN "break"
              ELSE "run"

\* the call that answers a question catches every exception in 01
\* (ask_question) and 05 (_run_and_display); in 02, 03 and 04 an exception
\* of the call leaves the loop
QueryMayRaise(p) == p \in {2, 3, 4}

InitLoop ==
    /\ PipelineIdle
    /\ AuxIdle
    /\ project \in Projects
    /\ pc = "input"
    /\ line = NoLine
    /\ env = NoEnv
    /\ steps = <<>>
    /\ listing = <<>>
    /\ all_documents = <<>>

\* input() returns or raises and the loop breaks, continues or calls the
\* function that answers the question
ReadLine ==
    /\ pc = "input"
    /\ \E inp \in Inputs :
          /\ line' = inp
          /\ pc' = CASE loop_body(project, inp) = "break" -> "exited"
                     [] loop_body(project, inp) = "continue" -> "input"
                     [] OTHER -> "running"
    /\ UNCHANGED <<pipeline, aux, project, env, steps, listing, all_documents>>

\* the call returns and the loop reads the next line, or the call raises
FinishQuery ==
    /\ pc = "running"
    /\ \E raises \in {r \in BOOLEAN : r => QueryMayRaise(project)} :
          pc' = IF raises THEN "crashed" ELSE "input"
    /\ UNCHANGED <<pipeline, aux, project, line, env, steps, listing, all_documents>>

NextLoop == ReadLine \/ FinishQuery

SpecLoop == InitLoop /\ [][NextLoop]_vars

-----------------------------------------------------------------------------
(* The startup of the five entry points *)

\* os.getenv("OPENAI_API_KEY"): not set, set to the empty string, one of
\* the placeholders of the .env.example files, or a key
Keys == {"<unset>", "", "your_openai_api_key_here", "your-openai-api-key-here", "sk-key"}

\* the LLM backend selected: 01 (--model ollama/...) and 03 (USE_OLLAMA)
\* can run without OpenAI, the other three always build a ChatOpenAI
Models(p) == IF p \in {1, 3} THEN {"openai", "ollama"} ELSE {"openai"}

\* whether the --file argument names an existing file (02 and 04)
Files(p) == IF p \in {2, 4} THEN {"found", "missing"} ELSE {"found"}

Envs(p) == [model : Models(p), key : Keys, file : Files(p)]

\* "not os.getenv(...)": the variable is not set or is empty
not_key(k) == k \in {"<unset>", ""}

\* The checks each entry point makes before its first step, in order: the
\* messages printed and whether the process exits.
\*   01 run_pipeline (lines 134-141): a warning, no exit
\*   02 main (lines 236-255): key (or its placeholder), then the file
\*   03 _get_llm (lines 52-73): key (or its placeholder) unless USE_OLLAMA
\*   04 main (lines 122-140): the file, then the key
\*   05 _check_api_keys (lines 61-63): the key
startup_checks(p, e) ==
    CASE p = 1 ->
           IF e.model # "ollama" /\ not_key(e.key)
           THEN [steps |-> <<"key warning">>, exits |-> FALSE]
           ELSE [steps |-> <<>>, exits |-> FALSE]
      [] p = 2 ->
           IF not_key(e.key) \/ e.key = "your_openai_api_key_here"
           THEN [steps |-> <<"key error">>, exits |-> TRUE]
           ELSE IF e.file = "missing"
           THEN [steps |-> <<"file error">>, exits |-> TRUE]
           ELSE [steps |-> <<>>, exits |-> FALSE]
      [] p = 3 ->
           IF e.model = "ollama"
           THEN [steps |-> <<>>, exits |-> FALSE]
           ELSE IF not_key(e.key) \/ e.key = "your-openai-api-key-here"
           THEN [steps |-> <<"key error">>, exits |-> TRUE]
           ELSE [steps |-> <<>>, exits |-> FALSE]
      [] p = 4 ->
           IF e.file = "missing"
           THEN [steps |-> <<"file error">>, exits |-> TRUE]
           ELSE IF not_key(e.key)
           THEN [steps |-> <<"key error">>, exits |-> TRUE]
           ELSE [steps |-> <<>>, exits |-> FALSE]
      [] OTHER ->
           IF not_key(e.key)
           THEN [steps |-> <<"key error">>, exits |-> TRUE]
           ELSE [steps |-> <<>>, exits |-> FALSE]

InitStartup ==
    /\ PipelineIdle
    /\ AuxIdle
    /\ project \in Projects
    /\ env \in Envs(project)
    /\ pc = "start"
    /\ steps = <<>>
    /\ line = NoLine
    /\ listing = <<>>
    /\ all_documents = <<>>

\* the entry point reads its arguments and environment and validates them
CheckConfig ==
    /\ pc = "start"
    /\ steps' = startup_checks(project, env).steps
    /\ pc' = IF startup_checks(project, env).exits THEN "exited" ELSE "checked"
    /\ UNCHANGED <<pipeline, aux, project, line, env, listing, all_documents>>

\* the first step: load_documents (01), parse_legal_document (02),
\* step_parse_papers (03), parse_document (04), index_knowledge_base (05);
\* 01 returns when no document was loaded (lines 154-160)
LoadStep ==
    /\ pc = "checked"
    /\ steps' = Append(steps, "load")
    /\ \E documents \in BOOLEAN :
          pc' = IF project = 1 /\ ~documents THEN "exited" ELSE "loaded"
    /\ UNCHANGED <<pipeline, aux, project, line, env, listing, all_documents>>

\* the embedding and indexing steps that follow
IndexStep ==
    /\ pc = "loaded"
    /\ steps' = Append(steps, "index")
    /\ pc' = "ready"
    /\ UNCHANGED <<pipeline, aux, project, line, env, listing, all_documents>>

NextStartup == CheckConfig \/ LoadStep \/ IndexStep

SpecStartup == InitStartup /\ [][NextStartup]_vars

-----------------------------------------------------------------------------
(* 01-rag-from-scratch: document_loader.py *)

\* The paths rglob("*") can yield under the data directory, in the order
\* sorted() gives them (Path compares part by part, upper case before
\* lower case, "." before both).
Paths == <<".notes.txt", "B.PDF", "a.pdf", "b.txt", "c.docx", "d.md", "sub", "sub/e.txt">>

\* position of a path in the sort order
PathRank(path) == CHOOSE i \in 1..Len(Paths) : Paths[i] = path

\* file_path.is_file(), file_path.name.startswith("."), file_path.suffix
\* and the number of Documents its loader returns when it does not raise
PathInfo(path) ==
    CASE path = ".notes.txt" ->
           [is_file |-> TRUE, dot |-> TRUE, suffix |-> <<".", "t", "x", "t">>, pages |-> 1]
      [] path = "B.PDF" ->
           [is_file |-> TRUE, dot |-> FALSE, suffix |-> <<".", "P", "D", "F">>, pages |-> 2]
      [] path = "a.pdf" ->
           [is_file |-> TRUE, dot |-> FALSE, suffix |-> <<".", "p", "d", "f">>, pages |-> 2]
      [] path = "b.txt" ->
           [is_file |-> TRUE, dot |-> FALSE, suffix |-> <<".", "t", "x", "t">>, pages |-> 1]
      [] path = "c.docx" ->
           [is_file |-> TRUE, dot |-> FALSE, suffix |-> <<".", "d", "o", "c", "x">>, pages |-> 1]
      [] path = "d.md" ->
           [is_file |-> TRUE, dot |-> FALSE, suffix |-> <<".", "m", "d">>, pages |-> 1]
      [] path = "sub" ->
           [is_file |-> FALSE, dot |-> FALSE, suffix |-> <<>>, pages |-> 0]
      [] OTHER ->
           [is_file |-> TRUE, dot |-> FALSE, suffix |-> <<".", "t", "x", "t">>, pages |-> 1]

\* the keys of loader_map (lines 71-75)
loader_map == {<<".", "p", "d", "f">>, <<".", "t", "x", "t">>, <<".", "d", "o", "c", "x">>}

\* A directory: up to MaxFiles distinct paths in the order rglob yields
\* them, each with what its loader does (raises or not).
DirEntries == [path : Range(Paths), raises : BOOLEAN]

IsListing(l) ==
    /\ \A i, j \in 1..Len(l) : i # j => l[i].path # l[j].path
    /\ \A i \in 1..Len(l) :
          l[i].raises => /\ PathInfo(l[i].path).is_file
                         /\ lower(PathInfo(l[i].path).suffix) \in loader_map

\* sorted(data_path.rglob("*")) (line 78)
RECURSIVE insert_by_path(_, _)
insert_by_path(sorted, x) ==
    IF sorted = <<>> THEN <<x>>
    ELSE IF PathRank(Head(sorted).path) <= PathRank(x.path)
    THEN <<Head(sorted)>> \o insert_by_path(Tail(sorted), x)
    ELSE <<x>> \o sorted

RECURSIVE sorted_loop(_, _)
sorted_loop(rest, sorted) ==
    IF rest = <<>> THEN sorted
    ELSE sorted_loop(Tail(rest), insert_by_path(sorted, Head(rest)))

sorted_paths(l) == sorted_loop(l, <<>>)

\* loader.load(): one Document per page, its metadata naming the file
loaded(f) == [k \in 1..PathInfo(f.path).pages |-> [source |-> f.path, page |-> k]]

\* the try block of one file (lines 98-115): what all_documents is
\* extended by; nothing when the loader raises
try_load_mut_no_except(f) == loaded(f)
try_load(f) == IF f.raises THEN <<>> ELSE loaded(f)

\* the for loop (lines 78-115)
RECURSIVE load_loop(_, _)
load_loop(rest, docs) ==
    IF rest = <<>> THEN docs
    ELSE LET f == Head(rest)
             file_ext == lower(PathInfo(f.path).suffix)
         IN  IF ~PathInfo(f.path).is_file THEN load_loop(Tail(rest), docs)
             ELSE IF PathInfo(f.path).dot THEN load_loop(Tail(rest), docs)
             ELSE IF file_ext \notin loader_map THEN load_loop(Tail(rest), docs)
             ELSE load_loop(Tail(rest), docs \o try_load(f))

\* load_documents (lines 57-125) on an existing directory
load_documents(l) == load_loop(sorted_paths(l), <<>>)

InitLoad ==
    /\ PipelineIdle
    /\ AuxIdle
    /\ project = 1
    /\ pc = "load"
    /\ line = NoLine
    /\ env \in [model : {"none"}, key : {"none"}, file : {"found", "missing"}]
    /\ steps = <<>>
    /\ \E l \in SeqsUpTo(DirEntries, MaxFiles) : IsListing(l) /\ listing = l
    /\ env.file = "missing" => listing = <<>>
    /\ all_documents = <<>>

\* load_documents(args.data_dir); a missing directory raises
\* FileNotFoundError (lines 61-65)
LoadDocuments ==
    /\ pc = "load"
    /\ all_documents' = IF env.file = "missing" THEN <<>> ELSE load_documents(listing)
    /\ pc' = IF env.file = "missing" THEN "crashed" ELSE "loaded"
    /\ UNCHANGED <<pipeline, aux, project, line, env, steps, listing>>

NextLoad == LoadDocuments

SpecLoad == InitLoad /\ [][NextLoad]_vars

-----------------------------------------------------------------------------
(* 03-research-agent: index_papers and parse_all_papers *)

\* A PDF of the papers directory: its name (its rank in sorted order),
\* whether PyPDFLoader(...).load() returns or raises, and what the LLM does
\* on its extraction prompt.
PaperEntries == [name : 1..MaxPapers, loads : BOOLEAN, llm : {"ok", "raise"}]

\* sorted(papers_path.glob("*.pdf")): distinct names in ascending order
IsGlob(l) == \A i, j \in 1..Len(l) : i < j => l[i].name < l[j].name

\* splitter.split_documents(pages) with the metadata of lines 100-105
chunks_of(pdf) == <<[source |-> pdf.name, chunk_id |-> 0]>>

\* the for loop of index_papers (paper_indexer.py lines 91-107):
\* loader.load() stands outside any try
RECURSIVE index_loop(_, _)
index_loop(rest, docs) ==
    IF rest = <<>> THEN [raised |-> FALSE, docs |-> docs]
    ELSE IF ~Head(rest).loads THEN [raised |-> TRUE, docs |-> <<>>]
    ELSE index_loop(Tail(rest), docs \o chunks_of(Head(rest)))

\* index_papers (lines 55-118); no PDF at all raises FileNotFoundError
index_papers(files) ==
    IF files = <<>> THEN [raised |-> TRUE, docs |-> <<>>]
    ELSE index_loop(files, <<>>)

NoMetadata == [title |-> 0, extracted |-> FALSE]

\* parse_paper (paper_parser.py lines 94-156): loader.load() stands before
\* the try; a failure of the LLM call or of the JSON parsing gives the
\* filename-derived fallback
parse_paper(pdf) ==
    IF ~pdf.loads THEN [raised |-> TRUE, metadata |-> NoMetadata]
    ELSE [raised |-> FALSE,
          metadata |-> [title |-> pdf.name, extracted |-> pdf.llm = "ok"]]

\* the for loop of parse_all_papers (lines 182-185)
RECURSIVE parse_loop(_, _)
parse_loop(rest, acc) ==
    IF rest = <<>> THEN [raised |-> FALSE, results |-> acc]
    ELSE LET m == parse_paper(Head(rest))
         IN  IF m.raised THEN [raised |-> TRUE, results |-> <<>>]
             ELSE parse_loop(Tail(rest), Append(acc, m.metadata))

\* parse_all_papers (lines 159-188)
parse_all_papers(files) ==
    IF files = <<>> THEN [raised |-> FALSE, results |-> <<>>]
    ELSE parse_loop(files, <<>>)

OtherAuxIdle ==
    /\ iterations = 0
    /\ observation = NoObservation
    /\ clauses = NoClauses
    /\ index_file = NoIndexFile
    /\ vector_store = NoStore
    /\ embedded = 0

others == <<iterations, observation, clauses, index_file, vector_store, embedded>>

InitPapers ==
    /\ PipelineIdle
    /\ project = 3
    /\ pc = "papers"
    /\ line = NoLine
    /\ env = NoEnv
    /\ steps = <<>>
    /\ listing = <<>>
    /\ all_documents = <<>>
    /\ \E l \in SeqsUpTo(PaperEntries, MaxPapers) : IsGlob(l) /\ pdf_files = l
    /\ all_docs = <<>>
    /\ paper_results = <<>>
    /\ OtherAuxIdle

\* index_papers(papers_dir, index_path)
IndexPapers ==
    /\ pc = "papers"
    /\ LET r == index_papers(pdf_files)
       IN  /\ all_docs' = r.docs
           /\ pc' = IF r.raised THEN "crashed" ELSE "indexed"
    /\ UNCHANGED <<pipeline, others, project, line, env, steps, listing, all_documents,
                   pdf_files, paper_results>>

\* parse_all_papers(papers_dir, llm)
ParseAllPapers ==
    /\ pc = "papers"
    /\ LET r == parse_all_papers(pdf_files)
       IN  /\ paper_results' = r.results
           /\ pc' = IF r.raised THEN "crashed" ELSE "parsed"
    /\ UNCHANGED <<pipeline, others, project, line, env, steps, listing, all_documents,
                   pdf_files, all_docs>>

NextPapers == IndexPapers \/ ParseAllPapers

SpecPapers == InitPapers /\ [][NextPapers]_vars

-----------------------------------------------------------------------------
(* 05-agentic-rag-realtime and 03-research-agent: the agent executor and its
   tools *)

\* build_tool_registry (tool_registry.py lines 31-68), the mock tools
\* standing in when a key is missing, and the tools of
\* create_research_agent (03 agent.py lines 95-98)
registry(p) ==
    IF p = 5
    THEN {"search_knowledge_base", "get_stock_data", "wikipedia", "web_search",
          "mock_web_search", "get_weather", "mock_weather"}
    ELSE {"search_papers", "summarise_paper", "compare_papers"}

\* the input string after strip(): blank or not
ToolInputs == {"", "x"}

\* what the backend of a tool does on a call: a result, nothing found, or
\* an exception
Backends == {"hit", "empty", "raise"}

Returns(text) == [kind |-> "string", text |-> text]
Propagates == [kind |-> "raise", text |-> "exception"]

\* the func of each Tool: the string it returns, or the exception that
\* leaves it
tool_func(name, input, backend) ==
    CASE name = "search_knowledge_base" ->
           \* rag_tool.py _search, lines 46-64: no try
           IF backend = "raise" THEN Propagates
           ELSE IF backend = "empty"
           THEN Returns("No relevant information found in knowledge base.")
           ELSE Returns("Found in knowledge base:")
      [] name = "get_stock_data" ->
           \* finance_tool.py lines 86-141: try ... except Exception
           IF backend = "hit" THEN Returns("Stock:")
           ELSE Returns("Could not find stock data")
      [] name = "wikipedia" ->
           \* wiki_tool.py lines 34-87
           IF input = "" THEN Returns("Please provide a topic to search on Wikipedia.")
           ELSE IF backend = "raise" THEN Returns("Error searching Wikipedia:")
           ELSE IF backend = "empty" THEN Returns("No Wikipedia articles found for:")
           ELSE Returns("Wikipedia:")
      [] name = "web_search" ->
           \* web_search_tool.py lines 46-102
           IF backend = "raise" THEN Returns("Web search unavailable:")
           ELSE IF backend = "empty" THEN Returns("Web search returned no results")
           ELSE Returns("Title:")
      [] name = "mock_web_search" ->
           \* web_search_tool.py lines 124-128
           Returns("Web search is not configured.")
      [] name = "get_weather" ->
           \* weather_tool.py lines 36-93
           IF backend = "raise" THEN Returns("Could not retrieve weather for")
           ELSE IF backend = "empty" THEN Returns("Could not find weather for")
           ELSE Returns("Weather in")
      [] name = "mock_weather" ->
           \* weather_tool.py lines 115-121
           Returns("[MOCK DATA] Weather in")
      [] OTHER ->
           \* 03 tools/search_tool.py, summary_tool.py, compare_tool.py: no try
           IF backend = "raise" THEN Propagates
           ELSE IF backend = "empty" THEN Returns("No relevant passages found")
           ELSE Returns("result")

\* what the LLM decides in one iteration: the final answer, a tool call, an
\* output the parser rejects, or the LLM call raises
Decisions(p) ==
    [kind : {"finish", "malformed", "llm_raise"}, tool : {"none"}, input : {""}]
        \cup [kind : {"call"}, tool : registry(p), input : ToolInputs]

\* the executor's loop condition under max_iterations=8
should_continue_mut_one_more(it) == it < max_iterations + 1
should_continue(it) == it < max_iterations

NotAgent ==
    /\ pdf_files = <<>>
    /\ all_docs = <<>>
    /\ paper_results = <<>>
    /\ clauses = NoClauses
    /\ index_file = NoIndexFile
    /\ vector_store = NoStore
    /\ embedded = 0

not_agent == <<pdf_files, all_docs, paper_results, clauses, index_file, vector_store,
               embedded, line, env, steps, listing, all_documents>>

InitAgent ==
    /\ PipelineIdle
    /\ project \in {3, 5}
    /\ pc = "plan"
    /\ line = NoLine
    /\ env = NoEnv
    /\ steps = <<>>
    /\ listing = <<>>
    /\ all_documents = <<>>
    /\ NotAgent
    /\ iterations = 0
    /\ observation = NoObservation

\* one iteration of the executor built with handle_parsing_errors=True:
\* the LLM decides, the tool runs, the observation is recorded
AgentStep ==
    /\ pc = "plan"
    /\ should_continue(iterations)
    /\ \E d \in Decisions(project), backend \in Backends :
          CASE d.kind = "finish" ->
                 /\ pc' = "finished"
                 /\ UNCHANGED <<iterations, observation>>
            [] d.kind = "llm_raise" ->
                 /\ pc' = "crashed"
                 /\ UNCHANGED <<iterations, observation>>
            [] d.kind = "malformed" ->
                 /\ observation' = [tool |-> "_Exception", kind |-> "string",
                                    text |-> "Invalid or incomplete response"]
                 /\ iterations' = iterations + 1
                 /\ pc' = "plan"
            [] OTHER ->
                 LET o == tool_func(d.tool, d.input, backend) IN
                 /\ observation' = [tool |-> d.tool, kind |-> o.kind, text |-> o.text]
                 /\ iterations' = IF o.kind = "raise" THEN iterations ELSE iterations + 1
                 /\ pc' = IF o.kind = "raise" THEN "crashed" ELSE "plan"
    /\ UNCHANGED <<pipeline, not_agent, project>>

\* the iteration limit is reached: the executor returns its stopped response
AgentStop ==
    /\ pc = "plan"
    /\ ~should_continue(iterations)
    /\ pc' = "stopped"
    /\ UNCHANGED <<pipeline, not_agent, project, iterations, observation>>

NextAgent == AgentStep \/ AgentStop

SpecAgent == InitAgent /\ [][NextAgent]_vars

-----------------------------------------------------------------------------
(* 02-legal-ai-assistant: extract_clauses *)

ClauseTypes ==
    {"indemnification", "limitation_of_liability", "termination", "governing_law",
     "ip_ownership", "confidentiality"}

\* What llm.invoke does on the clause prompt: it raises, or it answers with
\* a JSON array of clauses, one JSON object, another JSON value, or text
\* that is not JSON; the answer may stand in a markdown code fence.
ClauseResponses ==
    {[kind |-> "raise", fenced |-> FALSE, types |-> <<>>]}
        \cup {[kind |-> "list", fenced |-> f, types |-> t] :
                 f \in BOOLEAN, t \in SeqsUpTo(ClauseTypes, MaxClauses)}
        \cup {[kind |-> "object", fenced |-> f, types |-> <<t>>] :
                 f \in BOOLEAN, t \in ClauseTypes}
        \cup {[kind |-> k, fenced |-> f, types |-> <<>>] :
                 k \in {"scalar", "notjson"}, f \in BOOLEAN}

\* lines 97-102: the code fences are removed
strip_fences(raw) == [raw EXCEPT !.fenced = FALSE]

\* extract_clauses (lines 65-113): llm.invoke stands outside the try, the
\* try catches json.JSONDecodeError only
extract_clauses(raw) ==
    IF raw.kind = "raise" THEN [raised |-> TRUE, kind |-> "none", items |-> <<>>]
    ELSE LET clean == strip_fences(raw)
         IN  CASE clean.kind = "list" ->
                    [raised |-> FALSE, kind |-> "list", items |-> clean.types]
               [] clean.kind = "object" ->
                    [raised |-> FALSE, kind |-> "list", items |-> <<clean.types[1]>>]
               [] clean.kind = "scalar" ->
                    [raised |-> FALSE, kind |-> "scalar", items |-> <<>>]
               [] OTHER ->
                    [raised |-> FALSE, kind |-> "list", items |-> <<>>]

InitClauses ==
    /\ PipelineIdle
    /\ project = 2
    /\ pc = "extract"
    /\ line = NoLine
    /\ env = NoEnv
    /\ steps = <<>>
    /\ listing = <<>>
    /\ all_documents = <<>>
    /\ AuxIdle

\* clauses = extract_clauses(contract_text, llm)
ExtractClauses ==
    /\ pc = "extract"
    /\ \E raw \in ClauseResponses :
          LET r == extract_clauses(raw)
          IN  /\ clauses' = [raw_content |-> raw, kind |-> r.kind, items |-> r.items]
              /\ pc' = IF r.raised THEN "crashed" ELSE "extracted"
    /\ UNCHANGED <<pipeline, project, line, env, steps, listing, all_documents, pdf_files,
                   all_docs, paper_results, iterations, observation, index_file,
                   vector_store, embedded>>

NextClauses == ExtractClauses

SpecClauses == InitClauses /\ [][NextClauses]_vars

-----------------------------------------------------------------------------
(* 01-rag-from-scratch: get_or_create_vector_store *)

\* the chunks argument: main() passes the chunks of a non-empty document list
ChunkLists == SeqsUpTo({"c1", "c2", "c3"}, MaxChunks) \ {<<>>}

\* create_vector_store (lines 44-71): every chunk is embedded and indexed
create_vector_store(chunks) == [kind |-> "faiss", chunks |-> chunks]

\* os.path.exists(index_file) (line 151)
index_exists_mut_never(file) == FALSE
index_exists(file) == file.kind = "faiss"

\* get_or_create_vector_store (lines 127-159): the store returned, what is
\* under path afterwards, and the number of create_vector_store calls made
get_or_create_vector_store(chunks, file) ==
    IF index_exists(file)
    THEN [store |-> [kind |-> "loaded", chunks |-> file.chunks, passed |-> chunks],
          file  |-> file,
          built |-> 0]
    ELSE LET built == create_vector_store(chunks)
         IN  [store |-> [kind |-> "built", chunks |-> built.chunks, passed |-> chunks],
              file  |-> built,
              built |-> 1]

InitStore ==
    /\ PipelineIdle
    /\ project = 1
    /\ pc = "store"
    /\ line = NoLine
    /\ env = NoEnv
    /\ steps = <<>>
    /\ listing = <<>>
    /\ all_documents = <<>>
    /\ AuxIdle

\* vector_store = get_or_create_vector_store(chunks, embedding_model, path)
GetOrCreate ==
    /\ pc = "store"
    /\ \E chunks \in ChunkLists :
          LET r == get_or_create_vector_store(chunks, index_file)
          IN  /\ vector_store' = r.store
              /\ index_file' = r.file
              /\ embedded' = embedded + r.built
    /\ UNCHANGED <<pipeline, pc, project, line, env, steps, listing, all_documents,
                   pdf_files, all_docs, paper_results, iterations, observation, clauses>>

\* the user deletes the directory under path to force a rebuild (line 153)
DeleteIndex ==
    /\ pc = "store"
    /\ index_exists(index_file)
    /\ index_file' = NoIndexFile
    /\ embedded' = 0
    /\ UNCHANGED <<pipeline, pc, project, line, env, steps, listing, all_documents,
                   pdf_files, all_docs, paper_results, iterations, observation, clauses,
                   vector_store>>

NextStore == GetOrCreate \/ DeleteIndex

SpecStore == InitStore /\ [][NextStore]_vars

-----------------------------------------------------------------------------
(* Properties *)

\* the index of modality m
IndexOf(m) ==
    CASE m = "text" -> text_index [] m = "image" -> image_index [] OTHER -> table_index

\* retrieve_all has been called for the current query
Retrieved == pc \in {"retrieved", "merged", "answered", "crashed"}

\* merge_and_rank_results has returned for the current input
Merged == pc \in {"merged", "answered"}

SpecificTypes == {"TEXT", "IMAGE", "TABLE"}

\* the failures of a classification, read off the LLM's behaviour
ClassificationFails(resp) ==
    \/ resp.kind \in {"raise", "nojson", "badjson", "scalar"}
    \/ /\ resp.kind \in {"string", "list"}
       /\ \/ \E i \in 1..Len(resp.types) : resp.types[i] = NotAString
          \/ \A i \in 1..Len(resp.types) : Upper(resp.types[i]) \notin SpecificTypes

ReturnedBy(m) ==
    [i \in 1..Len(hits[m].docs) |->
        [content  |-> hits[m].docs[i].content,
         modality |-> m,
         metadata |-> <<m, i>>,
         source   |-> <<m, i>>,
         score    |-> hits[m].docs[i].score]]

\* retrieve_all's iteration order: text items, image items, table items
IterationOrder == ReturnedBy("text") \o ReturnedBy("image") \o ReturnedBy("table")

\* C3: if the search of one selected index raises, no exception leaves
\* retrieve_all and the items of the healthy searched indexes are returned.
C3_FailureIsolation ==
    (Retrieved /\ \E m \in Modalities : hits[m].kind = "raise")
        => /\ pc # "crashed"
           /\ \A m \in Modalities :
                 hits[m].kind = "ok" => Range(ReturnedBy(m)) \subseteq Range(raw_results)

FirstWith(s, c) ==
    s[CHOOSE i \in 1..Len(s) :
        s[i].content = c /\ \A j \in 1..(i - 1) : s[j].content # c]

\* C5: of the items that share a content, the merged list holds exactly the
\* first one in retrieve_all's iteration order (text, image, table, each in
\* returned order), with its own modality, metadata and score.
C5_FirstOccurrenceWins ==
    Merged =>
        LET io == IterationOrder IN
        \A c \in {io[i].content : i \in 1..Len(io)} :
            LET kept == {i \in 1..Len(ranked_results) : ranked_results[i].content = c}
            IN  /\ Cardinality(kept) = 1
                /\ \A i \in kept : ranked_results[i] = FirstWith(io, c)

\* C5 witness: a later duplicate from another modality has the smaller
\* distance, and the earlier item is the one in the merged list.
C5_Witness ==
    /\ Merged
    /\ \E i, j \in 1..Len(raw_results) :
          /\ i < j
          /\ raw_results[i].content = raw_results[j].content
          /\ raw_results[i].modality # raw_results[j].modality
          /\ raw_results[j].score < raw_results[i].score
          /\ raw_results[i] \in Range(ranked_results)
          /\ raw_results[j] \notin Range(ranked_results)

\* C6: retrieve_all searches the index of modality m exactly once if m is in
\* query_types and the index is not None, and never otherwise.
C6_SearchedExactlyOnce ==
    Retrieved =>
        \A m \in Modalities :
            Count(searched, m) =
                IF TypeOf(m) \in Range(query_types) /\ IndexOf(m) # "None" THEN 1 ELSE 0

\* C7: when the classifier's LLM call raises, every index that exists is
\* searched for that query.
C7_FailOpenEndToEnd ==
    (Retrieved /\ llm_raised)
        => \A m \in Modalities : IndexOf(m) # "None" => m \in Range(searched)

\* C8: when every searched index returns an empty sequence (or none is
\* selected or exists), no exception is raised, retrieve_all returns the
\* empty list and merge_and_rank_results returns the empty list.
C8_EmptyEverything ==
    (Retrieved /\ \A m \in Modalities : hits[m].kind # "raise" /\ hits[m].docs = <<>>)
        => /\ pc # "crashed"
           /\ raw_results = <<>>
           /\ Merged => ranked_results = <<>>

\* C8 witness: one index searched and empty, one selected index absent,
\* and the merge done.
C8_Witness ==
    /\ Merged
    /\ \A m \in Modalities : hits[m].docs = <<>>
    /\ \E m \in Modalities : hits[m].kind = "ok"
    /\ \E m \in Modalities : TypeOf(m) \in Range(query_types) /\ IndexOf(m) = "None"
    /\ ranked_results = <<>>

\* position of a modality in a round of the rotation
Ord(m) == CASE m = "text" -> 1 [] m = "image" -> 2 [] OTHER -> 3

\* the items of s tagged m, in the order of s
Tagged(s, m) == SelectSeq(s, LAMBDA r : r.modality = m)

\* the first occurrences of each content in s, in the order of s
FirstOccurrences(s) ==
    LET keep == {i \in 1..Len(s) : \A j \in 1..(i - 1) : s[j].content # s[i].content}
        F[i \in 0..Len(s)] ==
            IF i = 0 THEN <<>>
            ELSE IF i \in keep THEN Append(F[i - 1], s[i]) ELSE F[i - 1]
    IN  F[Len(s)]

\* position of item r in s
PosIn(s, r) == CHOOSE i \in 1..Len(s) : s[i] = r

\* b is a rearrangement of a by ascending score, ties in the order of a
\* (the items of a are pairwise distinct)
SortedStable(a, b) ==
    /\ Len(a) = Len(b)
    /\ Range(a) = Range(b)
    /\ \A i, j \in 1..Len(b) :
          i < j => \/ b[i].score < b[j].score
                   \/ b[i].score = b[j].score /\ PosIn(a, b[i]) < PosIn(a, b[j])

\* number of items tagged like out[p] among the first p items of out
RoundOf(out, p) ==
    Cardinality({q \in 1..p : out[q].modality = out[p].modality})

\* C9: with T, I, B the de-duplicated text, image and table items, each
\* sorted by ascending score with ties in input order, the output of
\* merge_and_rank_results is T[0], I[0], B[0], T[1], I[1], B[1], ..., an
\* exhausted bucket being skipped in its round.
C9_RoundRobin ==
    (Merged /\ \A i \in 1..Len(raw_results) : raw_results[i].modality \in Modalities)
        => /\ \A m \in Modalities :
                 SortedStable(Tagged(FirstOccurrences(raw_results), m),
                              Tagged(ranked_results, m))
           /\ Len(ranked_results) = Len(FirstOccurrences(raw_results))
           /\ \A p, q \in 1..Len(ranked_results) :
                 p < q =>
                    \/ RoundOf(ranked_results, p) < RoundOf(ranked_results, q)
                    \/ /\ RoundOf(ranked_results, p) = RoundOf(ranked_results, q)
                       /\ Ord(ranked_results[p].modality) < Ord(ranked_results[q].modality)

\* C9 witness: a bucket given out of score order, a second round, and a
\* bucket that is exhausted in that round.
C9_Witness ==
    /\ Merged
    /\ Len(raw_results) = 3
    /\ raw_results[1].modality = "text" /\ raw_results[1].score = 2
    /\ raw_results[2].modality = "image"
    /\ raw_results[3].modality = "text" /\ raw_results[3].score = 1
    /\ ranked_results = <<raw_results[3], raw_results[2], raw_results[1]>>

\* C10 as claimed: every modality that was searched and returned at least
\* one item has an item in the merged output.
C10_EveryReturningModalityRepresented ==
    Merged =>
        \A m \in Modalities :
            (hits[m].kind = "ok" /\ hits[m].docs # <<>>)
                => \E i \in 1..Len(ranked_results) : ranked_results[i].modality = m

\* C10 amended: every modality that returned at least one item whose
\* content was not returned earlier in the iteration order of the query has
\* an item in the merged output, whatever the scores.
C10_SurvivingModalityRepresented ==
    Merged =>
        LET io == IterationOrder IN
        \A p \in 1..Len(io) :
            (\A q \in 1..(p - 1) : io[q].content # io[p].content)
                => \E i \in 1..Len(ranked_results) : ranked_results[i].modality = io[p].modality

\* C10 witness: all three modalities are in the merged output although the
\* text item has a larger distance than the image and table items.
C10_Witness ==
    /\ Merged
    /\ Len(ranked_results) = 3
    /\ ranked_results[1].modality = "text" /\ ranked_results[1].score = 2
    /\ ranked_results[2].modality = "image" /\ ranked_results[2].score = 1
    /\ ranked_results[3].modality = "table" /\ ranked_results[3].score = 1

-----------------------------------------------------------------------------
(* Properties of generate_answer *)

\* generate_answer has run for the current ranked list
Generated == gen_llm # "none"

\* the contents the context shows, section after section ([TEXT], [IMAGE
\* DESCRIPTIONS], [TABLE DATA]), a sentinel section showing none
Shown(m) == IF context[m] = <<NoContext(m)>> THEN <<>> ELSE context[m]

ContextContents == Shown("text") \o Shown("image") \o Shown("table")

\* C11 as claimed: the contents of the ranked list appear in the context in
\* exactly the order of the ranked list.
C11_ContextInRankedOrder ==
    Generated =>
        ContextContents = [i \in 1..Len(ranked_results) |->
                              strip(ranked_results[i].content)]

\* C11 amended: the context has one section per modality, in the fixed order
\* text, image, table; the stripped content of the ranked item at position p
\* tagged text, image or table is the n-th entry of its modality's section,
\* where n counts the items of that modality up to p, so that the ranked
\* order is kept within each section and not across sections; an item with
\* any other tag is in no section.
C11_SectionsInRankedOrder ==
    Generated =>
        /\ \A p \in 1..Len(ranked_results) :
              LET m == ranked_results[p].modality IN
              m \in Modalities =>
                 /\ RoundOf(ranked_results, p) <= Len(Shown(m))
                 /\ Shown(m)[RoundOf(ranked_results, p)]
                       = strip(ranked_results[p].content)
        /\ \A m \in Modalities :
              Len(Shown(m)) = Cardinality({p \in 1..Len(ranked_results) :
                                              ranked_results[p].modality = m})

\* C11 witness: the ranked list is text, image, text and the context shows
\* the two text contents before the image content.
C11_Witness ==
    /\ Generated
    /\ Len(ranked_results) = 3
    /\ ranked_results[1].modality = "text"
    /\ ranked_results[2].modality = "image"
    /\ ranked_results[3].modality = "text"
    /\ context["text"] = <<strip(ranked_results[1].content),
                           strip(ranked_results[3].content)>>
    /\ context["text"][1] # context["text"][2]
    /\ context["image"] = <<strip(ranked_results[2].content)>>

\* C12: for the empty ranked list generate_answer builds its context without
\* raising, and each of the three sections is its "No ... context
\* available." sentinel.
C12_EmptyListSentinels ==
    (Generated /\ ranked_results = <<>>) =>
        /\ pc = "answered"
        /\ \A m \in Modalities : context[m] = <<NoContext(m)>>

\* C12 witness: generate_answer has returned for the empty list.
C12_Witness ==
    /\ pc = "answered"
    /\ ranked_results = <<>>
    /\ context["image"] = <<<<"No", "image", "context", "available.">>>>

\* C13: when the LLM call of generate_answer raises, generate_answer returns
\* the error string (followed by the image references) and no exception
\* leaves it, whatever the ranked list.
C13_GeneratorDegrades ==
    gen_llm = "raise" =>
        /\ pc = "answered"
        /\ answer.text = ErrorString
        /\ answer.refs = image_refs(ranked_results)

\* C13 witness: the LLM call raised on a prompt built from a non-empty
\* ranked list with an image item, and the error string was returned.
C13_Witness ==
    /\ gen_llm = "raise"
    /\ pc = "answered"
    /\ answer.text = ErrorString
    /\ answer.refs # <<>>

-----------------------------------------------------------------------------
(* Properties of the scores and of the session *)

\* C14 as claimed: every item of the retrieval result carries a score in
\* [0, 1].
C14_ScoresNormalized ==
    (Retrieved /\ pc # "crashed") =>
        \A i \in 1..Len(raw_results) :
            0 <= raw_results[i].score /\ raw_results[i].score <= 1

\* C14 amended: no normalized score is computed; every item of the
\* retrieval result, and every item of the merged list, carries unchanged
\* the non-negative L2 distance that its index returned for its document.
C14_RawDistanceCarried ==
    (Retrieved /\ pc # "crashed") =>
        /\ \A m \in Modalities : \A i \in 1..Len(hits[m].docs) :
              \E j \in 1..Len(raw_results) :
                 /\ raw_results[j].modality = m
                 /\ raw_results[j].metadata = <<m, i>>
                 /\ raw_results[j].score = hits[m].docs[i].score
        /\ \A j \in 1..Len(raw_results) :
              LET r == raw_results[j] IN
              /\ r.score = hits[r.modality].docs[r.metadata[2]].score
              /\ r.score >= 0
        /\ \A j \in 1..Len(ranked_results) :
              LET r == ranked_results[j] IN
              r.score = hits[r.modality].docs[r.metadata[2]].score

\* C14 witness: a batch of one document at distance 2 was returned and the
\* merged item carries the score 2.
C14_Witness ==
    /\ pc = "merged"
    /\ hits["image"].kind = "ok"
    /\ Len(hits["image"].docs) = 1
    /\ hits["image"].docs[1].score = 2
    /\ \E j \in 1..Len(ranked_results) :
          ranked_results[j].modality = "image" /\ ranked_results[j].score = 2

\* a failure happened while the current query was answered
SomeFailure ==
    \/ llm_raised
    \/ \E m \in Modalities : hits[m].kind = "raise"
    \/ gen_llm = "raise"

\* C15: after a classifier failure, an index search that raises or a
\* generator failure the session is not terminated: main()'s loop is still
\* running.
C15_NoFailureEndsSession == SomeFailure => pc # "crashed"

-----------------------------------------------------------------------------
(* Properties of the interactive loops *)

\* the spellings of "quit" and "exit" among the words a user types
QuitOrExit ==
    {<<"q", "u", "i", "t">>, <<"Q", "U", "I", "T">>, <<"Q", "u", "i", "t">>,
     <<"e", "x", "i", "t">>, <<"E", "x", "i", "T">>}

\* C16: in each of the five loops, a line that is "quit" or "exit" once
\* trimmed and lower-cased, or the end of the input, ends the loop with no
\* query run for it; an empty line runs no query and the loop reads the
\* next line.
C16_QuitExitEofEmpty ==
    /\ (line.kind = "line" /\ strip(line.text) \in QuitOrExit) => pc = "exited"
    /\ line.kind = "eof" => pc = "exited"
    /\ (line.kind = "line" /\ strip(line.text) = <<>>) => pc = "input"
    /\ pc \in {"running", "crashed"}
          => /\ line.kind = "line"
             /\ strip(line.text) # <<>>
             /\ strip(line.text) \notin QuitOrExit

\* C16 witness: the multimodal loop has ended on the line " QUIT ".
C16_Witness ==
    /\ project = 4
    /\ line = [kind |-> "line", text |-> <<" ", "Q", "U", "I", "T", " ">>]
    /\ pc = "exited"

-----------------------------------------------------------------------------
(* Properties across the queries of a session *)

\* C17: in any sequence of queries of one session, the retrieved and the
\* merged list of a query are determined by what the indexes selected for
\* that query returned for it; no item retrieved for an earlier query is in
\* them.
C17_QueryIsolation ==
    LET io == IterationOrder IN
    /\ (Retrieved /\ pc # "crashed") => raw_results = io
    /\ Merged =>
          /\ Range(ranked_results) \subseteq Range(io)
          /\ Stale \notin Range(ranked_results)

\* C17 witness: an earlier query of the session retrieved items, and the
\* current query has its own merged list.
C17_Witness ==
    /\ leftover # <<>>
    /\ pc = "merged"
    /\ ranked_results # <<>>

-----------------------------------------------------------------------------
(* Properties of the metadata *)

\* the list s with the metadata of item i replaced by f[i]
WithMetadata(s, f) == [i \in 1..Len(s) |-> [s[i] EXCEPT !.metadata = <<"doc", f[i]>>]]

\* the (content, modality, score) of each item of s
Triples(s) == [i \in 1..Len(s) |-> <<s[i].content, s[i].modality, s[i].score>>]

\* C18: every item output by merge_and_rank_results is an input item with
\* its metadata unchanged, and an input that differs only in metadata (the
\* metadata in reverse order, or the same metadata on every item) gives an
\* output with the same sequence of (content, modality, score).
C18_MetadataCarriedNotRanked ==
    Merged =>
        LET n == Len(raw_results)
            reversed == WithMetadata(raw_results, [i \in 1..n |-> n + 1 - i])
            same     == WithMetadata(raw_results, [i \in 1..n |-> 0])
        IN  /\ Range(ranked_results) \subseteq Range(raw_results)
            /\ Triples(merge_and_rank_results(reversed)) = Triples(ranked_results)
            /\ Triples(merge_and_rank_results(same)) = Triples(ranked_results)

\* C18 witness: three text items; the second has the smallest distance and
\* goes first, the first and the third tie and keep their input order, each
\* with its own metadata.
C18_Witness ==
    /\ Merged
    /\ Len(raw_results) = 3
    /\ raw_results[1].score = raw_results[3].score
    /\ ranked_results = <<raw_results[2], raw_results[1], raw_results[3]>>
    /\ ranked_results[1].metadata = <<"doc", 2>>
    /\ ranked_results[3].metadata = <<"doc", 3>>

-----------------------------------------------------------------------------
(* Properties of the startup *)

\* C19: in each entry point, when an OpenAI model is selected and
\* OPENAI_API_KEY is missing, the process exits before any loading or
\* indexing step.
C19_MissingKeyFatal ==
    (pc # "start" /\ env.model = "openai" /\ env.key \in {"<unset>", ""})
        => /\ pc = "exited"
           /\ "load" \notin Range(steps)
           /\ "index" \notin Range(steps)

-----------------------------------------------------------------------------
(* Properties of load_documents *)

\* the paths of regular, non-hidden files with a .pdf, .txt or .docx
\* extension in any case
SupportedPaths == {"B.PDF", "a.pdf", "b.txt", "c.docx", "sub/e.txt"}

\* the directory entries whose documents load_documents owes
Healthy == {f \in Range(listing) : f.path \in SupportedPaths /\ ~f.raises}

\* C20: for an existing directory, load_documents skips each supported file
\* whose loader raises (none of its documents is returned) and returns the
\* documents of every other supported file, each once, in ascending path
\* order and in each file's own page order.
C20_PerFileRecovery ==
    pc = "loaded" =>
        /\ \A i \in 1..Len(all_documents) :
              \E f \in Healthy : all_documents[i].source = f.path
        /\ \A f \in Healthy : \A k \in 1..PathInfo(f.path).pages :
              Cardinality({i \in 1..Len(all_documents) :
                              all_documents[i] = [source |-> f.path, page |-> k]}) = 1
        /\ \A i, j \in 1..Len(all_documents) :
              i < j =>
                 \/ PathRank(all_documents[i].source) < PathRank(all_documents[j].source)
                 \/ /\ all_documents[i].source = all_documents[j].source
                    /\ all_documents[i].page < all_documents[j].page

\* C20 witness: the directory lists b.txt, a.pdf and B.PDF in that order,
\* the loader of a.pdf raises, and the pages of B.PDF and then b.txt are
\* returned.
C20_Witness ==
    /\ pc = "loaded"
    /\ listing = <<[path |-> "b.txt", raises |-> FALSE],
                   [path |-> "a.pdf", raises |-> TRUE],
                   [path |-> "B.PDF", raises |-> FALSE]>>
    /\ all_documents = <<[source |-> "B.PDF", page |-> 1],
                         [source |-> "B.PDF", page |-> 2],
                         [source |-> "b.txt", page |-> 1]>>

-----------------------------------------------------------------------------
(* Properties of the ALL entry *)

\* C27: when an entry of the parsed "types" list is ALL in any case,
\* classify_query returns exactly [TEXT, IMAGE, TABLE], whatever entries
\* (valid, unknown, duplicated or not a string) stand before or after it.
C27_AllShortCircuits ==
    (pc = "classified"
       /\ llm_response.kind = "list"
       /\ \E i \in 1..Len(llm_response.types) : llm_response.types[i] \in {"ALL", "all"})
        => query_types = <<"TEXT", "IMAGE", "TABLE">>

\* C27 witness: the list is ["TEXT", "all"]: a valid entry was collected
\* before the ALL entry was met.
C27_Witness ==
    /\ pc = "classified"
    /\ llm_response = [kind |-> "list", types |-> <<"TEXT", "all">>]
    /\ query_types = <<"TEXT", "IMAGE", "TABLE">>

-----------------------------------------------------------------------------
(* Algebraic properties of merge_and_rank_results *)

\* C28: merge_and_rank_results is idempotent: applied to its own output it
\* returns that output, item for item and in the same order.
C28_Idempotent ==
    Merged => merge_and_rank_results(ranked_results) = ranked_results

\* C28 witness: the first application dropped a repeated content and put
\* the text item before the image item; a second application leaves that
\* output as it is.
C28_Witness ==
    /\ Merged
    /\ Len(raw_results) = 3
    /\ raw_results[3].content = raw_results[2].content
    /\ ranked_results = <<raw_results[2], raw_results[1]>>
    /\ ranked_results[1].modality = "text"
    /\ ranked_results[2].modality = "image"
    /\ merge_and_rank_results(ranked_results) = ranked_results

\* the distinct content strings of s
ContentsOf(s) == {s[i].content : i \in 1..Len(s)}

\* C29: the output of merge_and_rank_results holds exactly the first
\* occurrence of each distinct content string of the input, each once, and
\* nothing else, whatever the modality tags; its length is the number of
\* distinct content strings.
C29_ItemsConserved ==
    Merged =>
        /\ Range(ranked_results) = Range(FirstOccurrences(raw_results))
        /\ Len(ranked_results) = Cardinality(ContentsOf(raw_results))
        /\ \A i, j \in 1..Len(ranked_results) :
              ranked_results[i].content = ranked_results[j].content => i = j

\* C29 witness: an item tagged with an unknown modality and a repeated
\* content are in the input; the unknown-tagged item is in the output and
\* the repetition is not.
C29_Witness ==
    /\ Merged
    /\ Len(raw_results) = 3
    /\ raw_results[1].modality = "other"
    /\ raw_results[2].content # raw_results[1].content
    /\ raw_results[3].content = raw_results[2].content
    /\ Len(ranked_results) = 2
    /\ raw_results[1] \in Range(ranked_results)
    /\ raw_results[3] \notin Range(ranked_results)

-----------------------------------------------------------------------------
(* Properties of the result size *)

\* the modalities whose index is selected by the query types and exists
SelectedExisting ==
    {m \in Modalities : TypeOf(m) \in Range(query_types) /\ IndexOf(m) # "None"}

\* C30: when each index search returns at most k = K items, the merged
\* result of a query holds at most K items of each modality and at most K
\* times the number of selected, existing indexes in total (at most 3K).
C30_SizeBound ==
    Merged =>
        /\ \A m \in Modalities :
              Cardinality({i \in 1..Len(ranked_results) :
                              ranked_results[i].modality = m}) <= K
        /\ Len(ranked_results) <= K * Cardinality(SelectedExisting)
        /\ Len(ranked_results) <= 3 * K

\* C30 witness: only TEXT is selected, all three indexes exist, the text
\* search returned K documents and the merged result holds exactly K items.
C30_Witness ==
    /\ Merged
    /\ query_types = <<"TEXT">>
    /\ text_index = "FAISS" /\ image_index = "FAISS" /\ table_index = "FAISS"
    /\ Len(hits["text"].docs) = K
    /\ Len(hits["image"].docs) = K
    /\ Len(ranked_results) = K
    /\ \A i \in 1..K : ranked_results[i].modality = "text"

-----------------------------------------------------------------------------
(* Properties of the per-query step order *)

\* answer_query is over: it returned an answer or an exception left it
QueryOver == pc \in {"answered", "crashed"}

\* C26: every query runs classify, retrieve, merge and generate once each in
\* that order, searches its indexes in the order text, image, table, and
\* makes its second LLM call (generation) after all the searches: a query
\* that is over has been merged and has called the LLM for its answer.
C26_StepOrder ==
    /\ \A i, j \in 1..Len(searched) : i < j => Ord(searched[i]) < Ord(searched[j])
    /\ searched # <<>> => Retrieved
    /\ Generated => (pc = "answered" /\ ranked_results = merge_and_rank_results(raw_results))
    /\ QueryOver => Generated

-----------------------------------------------------------------------------
(* Properties of the research-agent corpus operations *)

\* C21: when one PDF of a non-empty papers directory fails to load,
\* index_papers and parse_all_papers do not abort: they return, and their
\* result covers every PDF that loads.
C21_NoAbortForBadFile ==
    pdf_files # <<>> =>
        /\ pc # "crashed"
        /\ pc = "indexed" =>
              \A i \in 1..Len(pdf_files) :
                 pdf_files[i].loads =>
                    \E j \in 1..Len(all_docs) : all_docs[j].source = pdf_files[i].name
        /\ pc = "parsed" =>
              \A i \in 1..Len(pdf_files) :
                 pdf_files[i].loads =>
                    \E j \in 1..Len(paper_results) :
                       paper_results[j].title = pdf_files[i].name

-----------------------------------------------------------------------------
(* Properties of the agent tools and of the agent loop *)

\* C22: every tool of the agentic registry returns a string for every input
\* string and every behaviour of its backend; no exception of a backend
\* leaves a tool.
C22_ToolsAlwaysReturnStrings ==
    (project = 5 /\ observation.tool \in registry(5)) => observation.kind = "string"

-----------------------------------------------------------------------------
(* Properties of extract_clauses *)

\* C24: extract_clauses always returns a list: the parsed list of clauses,
\* a single clause object wrapped in a one-element list, or the empty list
\* when the LLM response is not the expected JSON or the LLM call fails.
C24_AlwaysAList ==
    clauses.raw_content.kind # "none" =>
        /\ pc = "extracted"
        /\ clauses.kind = "list"
        /\ clauses.items =
              IF clauses.raw_content.kind \in {"list", "object"}
              THEN clauses.raw_content.types
              ELSE <<>>

-----------------------------------------------------------------------------
(* Properties of the vector store cache *)

\* C25: get_or_create_vector_store is a build-once cache: when index.faiss
\* exists under the path the stored index is returned whatever chunks are
\* passed and nothing is embedded; otherwise the index is built from the
\* passed chunks and saved; between two deletions of the directory the
\* index is built at most once.
C25_BuildOnceCache ==
    /\ embedded <= 1
    /\ index_file.kind = "faiss" <=> embedded = 1
    /\ (vector_store.kind = "loaded" /\ index_file.kind = "faiss")
          => vector_store.chunks = index_file.chunks
    /\ vector_store.kind = "built" => vector_store.chunks = vector_store.passed
    /\ (vector_store.kind = "built" /\ index_file.kind = "faiss")
          => index_file.chunks = vector_store.passed

\* C25 witness: the index was built from <<c1>> and a later call passing
\* <<c2, c3>> got the stored index of <<c1>>, with one build in all.
C25_Witness ==
    /\ index_file = [kind |-> "faiss", chunks |-> <<"c1">>]
    /\ vector_store = [kind |-> "loaded", chunks |-> <<"c1">>, passed |-> <<"c2", "c3">>]
    /\ embedded = 1

====
